---- MODULE Spec2Model ----
(***************************************************************************)
(* Model of the sc55 package (src/sc55/sc55.go, the revision that starts   *)
(* at line 140 of the file): the SysEx message codec, the Register         *)
(* encode/decode operations and the register catalog built by init().      *)
(*                                                                         *)
(* Go slices are 0-indexed; the sequences below are 1-indexed, and At      *)
(* reads a sequence with the source's 0-based index.  A Go run-time panic  *)
(* (index out of range) is the outcome "panic" of the call.                *)
(***************************************************************************)
EXTENDS Integers, Sequences, FiniteSets, TLC

VARIABLES
    registers,          \* the Register values, by pointer (master vars, parts[i] fields)
    registersByAddress, \* map[int]*Register
    registersByName,    \* map[string]*Register
    registerName,       \* map[*Register]string
    isImportant,        \* map[*Register]bool, as the set of keys mapped to true
    initPos,            \* how many steps of init() have run
    process             \* the command being run: [pc, call, frame, ret, clock,
                        \* timeoutTime]

vars == <<registers, registersByAddress, registersByName, registerName,
          isImportant, initPos, process>>

catalogVars == <<registers, registersByAddress, registersByName, registerName,
                 isImportant, initPos>>

\* The fields of process: where the command stands ("init", "ready", "wire",
\* "reading", "done"), the library call that produced the message in
\* flight, the message itself (the bytes on the wire), and the result of
\* the last decoding call or lookup; for register-get the time time.Now()
\* gives and the time queryRegister stops waiting at, in milliseconds.
pc == process.pc
call == process.call
frame == process.frame
ret == process.ret
clock == process.clock
timeoutTime == process.timeoutTime

-----------------------------------------------------------------------------
(* Bounds of the model. *)

\* Logical values tried around each end of a register's range.
Margin == 1
\* Longest data argument of a direct DataSet call.
MaxData == 2
\* Longest raw byte sequence read from the input stream.
MaxRawLen == 3
\* Longest text given to DisplayMessage.
MaxText == 33
\* Longest timeout of register-get, in milliseconds.
MaxTimeout == 2

-----------------------------------------------------------------------------
(* Constants of the package. *)

DefaultDevice == 16
manufacturerID == 65
sysExStart == 240
sysExEnd == 247
cmdRQ1 == 17
cmdDT1 == 18
AddrDisplayMessage == 1048576
AddrDisplayImage == 1048832
AddrModeSet == 4194431
\* Number of parts: var parts [16]Part.
NumParts == 16
\* Base of the part blocks in Part.init's caller: 0x401000, and the stride 0x100.
PartBase == 4198400
PartStride == 256

Reg(a, s, mn, mx, z) == [Address |-> a, Size |-> s, Min |-> mn, Max |-> mx, Zero |-> z]

\* The zero value of a Register (a field of parts[i] before Part.init runs).
ZeroRegister == Reg(0, 0, 0, 0, 0)

\* The master registers, in the order init() registers them, with the name
\* and importance each addRegister call passes.
Master(n, imp, r) == [name |-> n, important |-> imp, reg |-> r]

masterRegisters ==
    << Master("master-tune",            TRUE,  Reg(4194304, 4, 24, 2024, 1024)),
       Master("master-volume",          TRUE,  Reg(4194308, 1, 0, 127, 0)),
       Master("master-key-shift",       TRUE,  Reg(4194309, 1, 40, 88, 64)),
       Master("master-pan",             TRUE,  Reg(4194310, 1, 1, 127, 64)),
       Master("reverb-macro",           FALSE, Reg(4194608, 1, 0, 7, 0)),
       Master("reverb-character",       FALSE, Reg(4194609, 1, 0, 7, 0)),
       Master("reverb-pre-lpf",         FALSE, Reg(4194610, 1, 0, 7, 0)),
       Master("reverb-level",           TRUE,  Reg(4194611, 1, 0, 127, 0)),
       Master("reverb-time",            FALSE, Reg(4194612, 1, 0, 127, 0)),
       Master("reverb-delay-feedback",  FALSE, Reg(4194613, 1, 0, 127, 0)),
       Master("reverb-to-chorus-level", FALSE, Reg(4194614, 1, 0, 127, 0)),
       Master("chorus-macro",           FALSE, Reg(4194616, 1, 0, 7, 0)),
       Master("chorus-pre-lpf",         FALSE, Reg(4194617, 1, 0, 7, 0)),
       Master("chorus-level",           TRUE,  Reg(4194618, 1, 0, 127, 0)),
       Master("chorus-feedback",        FALSE, Reg(4194619, 1, 0, 127, 0)),
       Master("chorus-delay",           FALSE, Reg(4194620, 1, 0, 127, 0)),
       Master("chorus-rate",            FALSE, Reg(4194621, 1, 0, 127, 0)),
       Master("chorus-depth",           FALSE, Reg(4194622, 1, 0, 127, 0)),
       Master("chorus-to-reverb-level", FALSE, Reg(4194623, 1, 0, 127, 0)) >>

NumMaster == Len(masterRegisters)

\* The fields of type Part in declaration order (the order reflection walks
\* them), each with its name tag and whether it carries an important tag.
Field(n, imp) == [name |-> n, important |-> imp]

partFields ==
    << Field("tone-number-cc", FALSE),      Field("rx-channel", FALSE),
       Field("rx-pitch-bend", FALSE),       Field("rx-ch-pressure", FALSE),
       Field("rx-program-change", FALSE),   Field("rx-control-change", FALSE),
       Field("rx-poly-pressure", FALSE),    Field("rx-note-message", FALSE),
       Field("rx-rpn", FALSE),              Field("rx-nrpn", FALSE),
       Field("rx-modulation", FALSE),       Field("rx-volume", FALSE),
       Field("rx-pan-pot", FALSE),          Field("rx-expression", FALSE),
       Field("rx-hold-1", FALSE),           Field("rx-portamento", FALSE),
       Field("rx-sostenuto", FALSE),        Field("rx-soft", FALSE),
       Field("mono-poly-mode", FALSE),      Field("assign-mode", FALSE),
       Field("use-for-rhythm", FALSE),      Field("pitch-key-shift", TRUE),
       Field("pitch-offset-fine", FALSE),   Field("part-level", TRUE),
       Field("velocity-sense-depth", FALSE), Field("velocity-sense-offset", FALSE),
       Field("pan-pot", TRUE),              Field("key-range-low", FALSE),
       Field("key-range-high", FALSE),      Field("cc-1-controller", FALSE),
       Field("cc-2-controller", FALSE),     Field("chorus-send-level", TRUE),
       Field("reverb-send-level", TRUE),    Field("rx-bank-select", FALSE),
       Field("tone-modify-1", FALSE),       Field("tone-modify-2", FALSE),
       Field("tone-modify-3", FALSE),       Field("tone-modify-4", FALSE),
       Field("tone-modify-5", FALSE),       Field("tone-modify-6", FALSE),
       Field("tone-modify-7", FALSE),       Field("tone-modify-8", FALSE) >>

NumFields == Len(partFields)

\* templatePart: the Register of each field, with its relative address.
\* Field 15 is the one the template spells RxHoldi (relative address 0x0f).
templatePart ==
    << Reg(0, 2, 0, 32639, 0),  Reg(2, 1, 0, 16, 0),   Reg(3, 1, 0, 1, 0),
       Reg(4, 1, 0, 1, 0),      Reg(5, 1, 0, 1, 0),    Reg(6, 1, 0, 1, 0),
       Reg(7, 1, 0, 1, 0),      Reg(8, 1, 0, 1, 0),    Reg(9, 1, 0, 1, 0),
       Reg(10, 1, 0, 1, 0),     Reg(11, 1, 0, 1, 0),   Reg(12, 1, 0, 1, 0),
       Reg(13, 1, 0, 1, 0),     Reg(14, 1, 0, 1, 0),   Reg(15, 1, 0, 1, 0),
       Reg(16, 1, 0, 1, 0),     Reg(17, 1, 0, 1, 0),   Reg(18, 1, 0, 1, 0),
       Reg(19, 1, 0, 1, 0),     Reg(20, 1, 0, 2, 0),   Reg(21, 1, 0, 2, 0),
       Reg(22, 1, 40, 88, 64),  Reg(23, 2, 8, 248, 2048), Reg(25, 1, 0, 127, 0),
       Reg(26, 1, 0, 127, 0),   Reg(27, 1, 0, 127, 0), Reg(28, 1, 0, 127, 64),
       Reg(29, 1, 0, 127, 0),   Reg(30, 1, 0, 127, 0), Reg(31, 1, 0, 95, 0),
       Reg(32, 1, 0, 95, 0),    Reg(33, 1, 0, 127, 0), Reg(34, 1, 0, 127, 0),
       Reg(35, 1, 0, 1, 0),     Reg(48, 1, 14, 114, 64), Reg(49, 1, 14, 114, 64),
       Reg(50, 1, 14, 114, 64), Reg(51, 1, 14, 114, 64), Reg(52, 1, 14, 114, 64),
       Reg(53, 1, 14, 114, 64), Reg(54, 1, 14, 114, 64), Reg(55, 1, 14, 114, 64) >>

\* Pointers.  &MasterTune .. &ChorusToReverbLevel are 1..NumMaster; the
\* address of field f (1-based) of parts[i] (0-based) follows them.
MasterPtr(k) == k
FieldPtr(i, f) == NumMaster + i * NumFields + f
Pointers == 1..(NumMaster + NumParts * NumFields)

-----------------------------------------------------------------------------
(* Integer and byte arithmetic as Go computes it. *)

\* byte(x): conversion of an int to a byte keeps the low 8 bits.
Byte(x) == x % 256

\* (x >> k) & 0xff for k = 8*n: an arithmetic shift is a floor division.
RECURSIVE Pow256(_)
Pow256(n) == IF n = 0 THEN 1 ELSE 256 * Pow256(n - 1)
ShiftByte(x, n) == (x \div Pow256(n)) % 256

\* s[i] of a Go slice.
At(s, i) == s[i + 1]
\* s[lo:hi] of a Go slice (callers keep 0 <= lo <= hi <= len(s)).
Slice(s, lo, hi) == SubSeq(s, lo + 1, hi)

RECURSIVE SumBytes(_)
SumBytes(data) == IF data = <<>> THEN 0 ELSE Head(data) + SumBytes(Tail(data))

\* The earlier revision's return statement: byte(128 - (sum % 128)).
checksum_noFinalMod(data) == Byte(128 - (SumBytes(data) % 128))

checksum(data) == Byte(128 - (SumBytes(data) % 128)) % 128

\* The boundary address itself put on the lower side.
modelID_inclusive(addr) == IF addr <= registers[MasterPtr(1)].Address THEN 69 ELSE 66

\* MasterTune.Address is read from the package variable when called.
modelID(addr) == IF addr < registers[MasterPtr(1)].Address THEN 69 ELSE 66

marshalInt24(val) == << ShiftByte(val, 2), ShiftByte(val, 1), ShiftByte(val, 0) >>

\* The three bytes taken least significant first.
unmarshalInt24_littleEndian(data) ==
    At(data, 2) * 65536 + At(data, 1) * 256 + At(data, 0)

\* The three bytes are OR-ed into disjoint bit ranges, which adds them.
unmarshalInt24(data) == At(data, 0) * 65536 + At(data, 1) * 256 + At(data, 2)

\* The checksum taken over the whole message so far instead of the body.
DataSet_checksumOverHeader(device, addr, data) ==
    LET body == marshalInt24(addr) \o data
        msg  == <<sysExStart, manufacturerID, Byte(device), modelID(addr), cmdDT1>> \o body
    IN  msg \o <<checksum(msg)>> \o <<sysExEnd>>

DataSet(device, addr, data) ==
    LET body == marshalInt24(addr) \o data
        msg  == <<sysExStart, manufacturerID, Byte(device), modelID(addr), cmdDT1>>
    IN  msg \o body \o <<checksum(body)>> \o <<sysExEnd>>

DataGet(device, addr, size) ==
    LET body == marshalInt24(addr) \o marshalInt24(size)
        msg  == <<sysExStart, manufacturerID, Byte(device), modelID(addr), cmdRQ1>>
    IN  msg \o body \o <<checksum(body)>> \o <<sysExEnd>>

\* Results of the decoding calls.  status is "ok", "error" (a non-nil error
\* is returned, err names which) or "panic" (the call faults).
Failed(kind) == [status |-> "error", err |-> kind, dev |-> 0, addr |-> 0,
                 payload |-> <<>>, value |-> 0, regs |-> <<>>, name |-> ""]
Panicked == [status |-> "panic", err |-> "index out of range", dev |-> 0,
             addr |-> 0, payload |-> <<>>, value |-> 0, regs |-> <<>>, name |-> ""]
NoResult == [status |-> "none", err |-> "", dev |-> 0, addr |-> 0,
             payload |-> <<>>, value |-> 0, regs |-> <<>>, name |-> ""]

\* The checksum comparison left out.
UnmarshalSet_noChecksumCheck(msg) ==
    LET n == Len(msg) IN
    IF n < 1 THEN Panicked
    ELSE IF At(msg, 0) # sysExStart \/ At(msg, n - 1) # sysExEnd
        THEN Failed("not a SysEx command")
    ELSE IF n < 2 THEN Panicked
    ELSE IF At(msg, 1) # manufacturerID THEN Failed("wrong manufacturer")
    ELSE IF n < 4 THEN Panicked
    ELSE IF At(msg, 3) # 66 /\ At(msg, 3) # 69 THEN Failed("wrong device")
    ELSE IF n < 5 THEN Panicked
    ELSE IF At(msg, 4) # cmdDT1 THEN Failed("wrong command type")
    ELSE IF n < 10 THEN Failed("too short")
    ELSE [status |-> "ok", err |-> "", dev |-> At(msg, 2),
          addr |-> unmarshalInt24(Slice(msg, 5, 8)),
          payload |-> Slice(msg, 8, n - 2), value |-> 0, regs |-> <<>>,
          name |-> ""]

\* The switch evaluates its cases in order; each case indexes msg before
\* the length is looked at, so an index past the end faults there.
UnmarshalSet(msg) ==
    LET n == Len(msg) IN
    IF n < 1 THEN Panicked
    ELSE IF At(msg, 0) # sysExStart \/ At(msg, n - 1) # sysExEnd
        THEN Failed("not a SysEx command")
    ELSE IF n < 2 THEN Panicked
    ELSE IF At(msg, 1) # manufacturerID THEN Failed("wrong manufacturer")
    ELSE IF n < 4 THEN Panicked
    ELSE IF At(msg, 3) # 66 /\ At(msg, 3) # 69 THEN Failed("wrong device")
    ELSE IF n < 5 THEN Panicked
    ELSE IF At(msg, 4) # cmdDT1 THEN Failed("wrong command type")
    ELSE IF n < 10 THEN Failed("too short")
    ELSE IF checksum(Slice(msg, 5, n - 2)) # At(msg, n - 2)
        THEN Failed("wrong checksum")
    ELSE [status |-> "ok", err |-> "", dev |-> At(msg, 2),
          addr |-> unmarshalInt24(Slice(msg, 5, 8)),
          payload |-> Slice(msg, 8, n - 2), value |-> 0, regs |-> <<>>,
          name |-> ""]

\* The first case returning the wrong bound.
clamp_lowerReturnsMax(x, min, max) ==
    IF x < min THEN max ELSE IF x > max THEN max ELSE x

clamp(x, min, max) == IF x < min THEN min ELSE IF x > max THEN max ELSE x

-----------------------------------------------------------------------------
(* The display commands. *)

\* The message cut after 32 bytes, the maximum the data sheet gives.
DisplayMessage_cutAt32(device, msg) ==
    DataSet(device, AddrDisplayMessage,
            IF Len(msg) > 32 THEN Slice(msg, 0, 32) ELSE msg)

\* msg is the string as its bytes.
DisplayMessage(device, msg) ==
    DataSet(device, AddrDisplayMessage,
            IF Len(msg) > 31 THEN Slice(msg, 0, 31) ELSE msg)

\* An image.Image: its bounds (Min and Max corners) and the colour of each
\* pixel as the <<r, g, b>> that RGBA() returns, each component in 0..65535.
\* The pixels in lit have the colour on, the others the colour off.
Image(min, max, lit, on, off) ==
    [min |-> min, max |-> max, lit |-> lit, on |-> on, off |-> off]

PixelAt(img, x, y) == IF <<x, y>> \in img.lit THEN img.on ELSE img.off

\* (r+g+b)/3 > 0x8000
Bright(c) == (c[1] + c[2] + c[3]) \div 3 > 32768

bytenum(x, y) == (x \div 5) * 16 + y

\* The bits of a column group counted from the other end.
bitnum_fromRight(x) == x % 5

bitnum(x) == 4 - (x % 5)

RECURSIVE Pow2(_)
Pow2(k) == IF k = 0 THEN 1 ELSE 2 * Pow2(k - 1)

\* The (x, y) the two loops of DisplayImage run over.
Pixels == (0..15) \X (0..15)

\* The iterations (x, y) of the two loops that address byte k of buf.
IterationsAt == [k \in 0..63 |-> {p \in Pixels : bytenum(p[1], p[2]) = k}]

\* The OR of 1 << b over the bit numbers b in bits, as a byte.
RECURSIVE OrBits(_, _)
OrBits(bits, b) ==
    IF b > 7 THEN 0
    ELSE (IF b \in bits THEN Pow2(b) ELSE 0) + OrBits(bits, b + 1)

\* The two loops of DisplayImage as they leave byte k of buf: the OR of
\* 1 << bitnum(x) over the iterations that address byte k and whose pixel
\* passes the test.
PackedByte(img, k) ==
    OrBits({bitnum(p[1]) :
              p \in {q \in IterationsAt[k] : Bright(PixelAt(img, q[1], q[2]))}}, 0)

\* DisplayImage returns (message, error): the message, or <<>> and the error.
DisplayImage(device, img) ==
    IF img.min # <<0, 0>> \/ img.max # <<16, 16>>
    THEN [msg |-> <<>>, err |-> "image to display must be 16x16 bitmap"]
    ELSE [msg |-> DataSet(device, AddrDisplayImage,
                          [k \in 1..64 |-> PackedByte(img, k - 1)]),
          err |-> ""]

-----------------------------------------------------------------------------
(* Register operations.  r is a Register value (the pointer dereferenced). *)

\* The two arguments in the other order.
RegisterGet_sizeFirst(r, device) == DataGet(device, r.Size, r.Address)

RegisterGet(r, device) == DataGet(device, r.Address, r.Size)

\* The raw value Register.Set encodes.
\* An earlier revision: the bounds applied before the offset.
SetRaw_clampThenOffset(r, value) == clamp(value, r.Min, r.Max) + r.Zero

SetRaw(r, value) == clamp(value + r.Zero, r.Min, r.Max)

\* bytes[:r.Size] of the four little-endian bytes of value.
SetBytes(value, size) ==
    Slice(<< ShiftByte(value, 0), ShiftByte(value, 1),
             ShiftByte(value, 2), ShiftByte(value, 3) >>, 0, size)

RegisterSet(r, device, value) ==
    DataSet(device, r.Address, SetBytes(SetRaw(r, value), r.Size))

\* result |= int(b) << uint(i*8) over the payload: the bytes occupy disjoint
\* bit ranges, so the OR adds them.
RECURSIVE AccumulateLE(_, _)
AccumulateLE(payload, i) ==
    IF i >= Len(payload) THEN 0
    ELSE At(payload, i) * Pow256(i) + AccumulateLE(payload, i + 1)

\* The comparison with Min and Max left out.
RegisterUnmarshal_noRangeCheck(r, msg) ==
    LET u == UnmarshalSet(msg)
        result == AccumulateLE(u.payload, 0)
    IN  IF u.status # "ok" THEN u
        ELSE IF u.addr # r.Address THEN Failed("wrong register")
        ELSE IF Len(u.payload) # r.Size THEN Failed("wrong size")
        ELSE [u EXCEPT !.payload = <<>>, !.addr = 0, !.value = result - r.Zero]

\* The offset not taken off again.
RegisterUnmarshal_keepsOffset(r, msg) ==
    LET u == UnmarshalSet(msg)
        result == AccumulateLE(u.payload, 0)
    IN  IF u.status # "ok" THEN u
        ELSE IF u.addr # r.Address THEN Failed("wrong register")
        ELSE IF Len(u.payload) # r.Size THEN Failed("wrong size")
        ELSE IF result < r.Min \/ result > r.Max THEN Failed("out of range")
        ELSE [u EXCEPT !.payload = <<>>, !.addr = 0, !.value = result]

RegisterUnmarshal(r, msg) ==
    LET u == UnmarshalSet(msg)
        result == AccumulateLE(u.payload, 0)
    IN  IF u.status # "ok" THEN u
        ELSE IF u.addr # r.Address THEN Failed("wrong register")
        ELSE IF Len(u.payload) # r.Size THEN Failed("wrong size")
        ELSE IF result < r.Min \/ result > r.Max THEN Failed("out of range")
        ELSE [u EXCEPT !.payload = <<>>, !.addr = 0, !.value = result - r.Zero]

-----------------------------------------------------------------------------
(* The catalog: the package-level maps and how init() fills them. *)

\* m[k] = v on a Go map.
MapPut(m, k, v) == [x \in (DOMAIN m) \cup {k} |-> IF x = k THEN v ELSE m[x]]

EmptyMap == [x \in {} |-> 0]

Catalog(regs, byAddr, byName, names, imp) ==
    [registers |-> regs, registersByAddress |-> byAddr, registersByName |-> byName,
     registerName |-> names, isImportant |-> imp]

addRegister(cat, name, r, important) ==
    [cat EXCEPT
        !.registersByName = MapPut(@, name, r),
        !.registersByAddress = MapPut(@, cat.registers[r].Address, r),
        !.registerName = MapPut(@, r, name),
        !.isImportant = IF important THEN @ \cup {r} ELSE @]

\* fmt.Sprintf("%d", n) for n >= 0.
Digit(d) == CASE d = 0 -> "0" [] d = 1 -> "1" [] d = 2 -> "2" [] d = 3 -> "3"
              [] d = 4 -> "4" [] d = 5 -> "5" [] d = 6 -> "6" [] d = 7 -> "7"
              [] d = 8 -> "8" [] d = 9 -> "9"
RECURSIVE Decimal(_)
Decimal(n) == IF n < 10 THEN Digit(n) ELSE Decimal(n \div 10) \o Digit(n % 10)

\* fmt.Sprintf("part-%d.", partNumber)
PartPrefix(partNumber) == "part-" \o Decimal(partNumber) \o "."

\* The first revision's layout: parts[i] at block i.
PartIndex_zeroBased(partNumber) == partNumber - 1

\* The remainder alone, without the step for the part numbers above 10.
PartIndex_mod10(partNumber) == partNumber % 10

\* partIndex of init(): partNumber % 10, replaced by partNumber - 1 above 10.
PartIndex(partNumber) ==
    IF partNumber > 10 THEN partNumber - 1 ELSE partNumber % 10

\* The loop of Part.init from field f on: r.Address += addr; addRegister(...).
RECURSIVE PartInitFields(_, _, _, _, _)
PartInitFields(cat, i, prefix, addr, f) ==
    IF f > NumFields THEN cat
    ELSE LET r == FieldPtr(i, f)
             moved == [cat EXCEPT !.registers[r].Address = @ + addr]
         IN  PartInitFields(
                 addRegister(moved, prefix \o partFields[f].name, r,
                             partFields[f].important),
                 i, prefix, addr, f + 1)

\* (p *Part).init for p = &parts[i]: *p = templatePart, then the loop.
PartInit(cat, i, prefix, addr) ==
    LET copied == [cat EXCEPT !.registers =
                      [q \in Pointers |->
                          IF q \in {FieldPtr(i, f) : f \in 1..NumFields}
                          THEN templatePart[q - FieldPtr(i, 0)]
                          ELSE @[q]]]
    IN  PartInitFields(copied, i, prefix, addr, 1)

CurrentCatalog ==
    Catalog(registers, registersByAddress, registersByName, registerName, isImportant)

SetCatalog(cat) ==
    /\ registers' = cat.registers
    /\ registersByAddress' = cat.registersByAddress
    /\ registersByName' = cat.registersByName
    /\ registerName' = cat.registerName
    /\ isImportant' = cat.isImportant

\* Lookups: the pair (register, found); the register is 0 (nil) when not found.
RegisterByName(name) ==
    IF name \in DOMAIN registersByName
    THEN <<registersByName[name], TRUE>> ELSE <<0, FALSE>>

RegisterByAddress(addr) ==
    IF addr \in DOMAIN registersByAddress
    THEN <<registersByAddress[addr], TRUE>> ELSE <<0, FALSE>>

\* (r *Register).Name(): a missing key reads as the empty string.
RegisterNameOf(r) == IF r \in DOMAIN registerName THEN registerName[r] ELSE ""

\* (r *Register).Important(): a missing key reads as false.
Important(r) == r \in isImportant

\* The keys of an address-keyed map taken by size (keys between lo and hi).
RECURSIVE KeysBySize(_, _, _)
KeysBySize(keys, lo, hi) ==
    IF keys = {} THEN <<>>
    ELSE IF lo = hi THEN <<lo>>
    ELSE LET mid == (lo + hi) \div 2
         IN  KeysBySize({a \in keys : a <= mid}, lo, mid)
             \o KeysBySize({a \in keys : a > mid}, mid + 1, hi)

\* The keys of a map in the order one range loop visits them.  Go leaves the
\* order unspecified and varies it from loop to loop; order = <<k, down>>
\* stands for it: taking the keys by size, they are visited from the k-th
\* on, wrapping around, upwards or downwards.
RangeKeys(m, order) ==
    LET keys == KeysBySize(DOMAIN m, 0, Pow256(3) - 1)
        n == Len(keys)
    IN  [j \in 1..n |->
            LET step == IF order[2] THEN n - (j - 1) ELSE j - 1
            IN  keys[((order[1] + step) % n) + 1]]

\* sort.IntSlice(addrs).Sort(): the same elements in ascending order (the
\* elements are addresses, between lo and hi).  The elements up to the
\* middle of the range come first, sorted, then the others, sorted.
RECURSIVE SortBetween(_, _, _)
SortBetween(addrs, lo, hi) ==
    IF Len(addrs) <= 1 \/ lo >= hi THEN addrs
    ELSE LET mid == (lo + hi) \div 2
         IN  SortBetween(SelectSeq(addrs, LAMBDA a : a <= mid), lo, mid)
             \o SortBetween(SelectSeq(addrs, LAMBDA a : a > mid), mid + 1, hi)

SortInts(addrs) == SortBetween(addrs, 0, Pow256(3) - 1)

\* The sort left out: the registers in the order the map was ranged over.
AllRegisters_unsorted(order) ==
    LET addrs == RangeKeys(registersByAddress, order)
    IN  [j \in 1..Len(addrs) |-> registersByAddress[addrs[j]]]

AllRegisters(order) ==
    LET addrs == SortInts(RangeKeys(registersByAddress, order))
    IN  [j \in 1..Len(addrs) |-> registersByAddress[addrs[j]]]

\* PartByNumber: the index into parts, or -1 for nil.
PartByNumber(i) == IF i < 1 \/ i > 16 THEN -1 ELSE i - 1

-----------------------------------------------------------------------------
(* Inputs. *)

\* The default device and the largest byte value.
DeviceIDs == {DefaultDevice, 255}

\* Logical values at and beyond both ends of the register's logical range,
\* 0, and for the registers wider than a byte the values whose raw value
\* straddles the first byte boundary.
ValueSamples(r) ==
    ((r.Min - r.Zero - Margin)..(r.Min - r.Zero))
    \cup ((r.Max - r.Zero)..(r.Max - r.Zero + Margin))
    \cup {0}
    \cup (IF r.Size > 1 THEN {255 - r.Zero, 256 - r.Zero} ELSE {})

NoCall == [op |-> "none", reg |-> 0, device |-> 0, value |-> 0, addr |-> 0,
           data |-> <<>>, name |-> "", corrupted |-> FALSE, decoder |-> "none",
           with |-> 0, order |-> <<0, FALSE>>, calls |-> 0, earlier |-> <<>>,
           image |-> Image(<<0, 0>>, <<0, 0>>, {}, <<0, 0, 0>>, <<0, 0, 0>>)]

-----------------------------------------------------------------------------
(* init(), one addRegister call or one Part.init call at a time. *)

Init ==
    /\ registers = [q \in Pointers |->
                       IF q <= NumMaster THEN masterRegisters[q].reg ELSE ZeroRegister]
    /\ registersByAddress = EmptyMap
    /\ registersByName = EmptyMap
    /\ registerName = EmptyMap
    /\ isImportant = {}
    /\ initPos = 0
    /\ process = [pc |-> "init", call |-> NoCall, frame |-> <<>>, ret |-> NoResult,
                  clock |-> 0, timeoutTime |-> 0]

AddMaster ==
    /\ pc = "init"
    /\ initPos < NumMaster
    /\ LET m == masterRegisters[initPos + 1]
       IN  SetCatalog(addRegister(CurrentCatalog, m.name, MasterPtr(initPos + 1),
                                  m.important))
    /\ initPos' = initPos + 1
    /\ UNCHANGED process

InitPart ==
    /\ pc = "init"
    /\ initPos >= NumMaster
    /\ initPos < NumMaster + NumParts
    /\ LET i == initPos - NumMaster
           partNumber == i + 1
       IN  SetCatalog(PartInit(CurrentCatalog, i, PartPrefix(partNumber),
                               PartBase + PartIndex(partNumber) * PartStride))
    /\ initPos' = initPos + 1
    /\ process' = [process EXCEPT !.pc = IF initPos + 1 = NumMaster + NumParts
                                  THEN "ready" ELSE "init"]

-----------------------------------------------------------------------------
(* Calls of the library once init() has run.  A process runs one command:  *)
(* it builds one message, which may then be decoded.                       *)

\* Addresses given to DataSet and DataGet directly: the display addresses,
\* both sides of the model ID boundary, registers, and the ends of the range.
AddressSamples ==
    {0, AddrDisplayMessage, masterRegisters[1].reg.Address - 1,
     masterRegisters[1].reg.Address, masterRegisters[2].reg.Address,
     masterRegisters[3].reg.Address, PartBase + PartStride, 16777215}

\* Data bytes given to DataSet directly (0xF7 is the end-of-message byte).
DataBytes == {0, 1, 128, sysExEnd, 255}

RECURSIVE SeqsUpTo(_, _)
SeqsUpTo(S, n) ==
    IF n = 0 THEN {<<>>}
    ELSE LET shorter == SeqsUpTo(S, n - 1)
         IN  shorter \cup {Append(q, b) : q \in {x \in shorter : Len(x) = n - 1}, b \in S}

DataSamples == SeqsUpTo(DataBytes, MaxData)

\* Bytes of the raw sequences read from the input stream.
WireBytes == {sysExStart, manufacturerID, sysExEnd, cmdDT1, 66, 0}

RawSamples == SeqsUpTo(WireBytes, MaxRawLen)

\* A DT1 message of which only the first i bytes and the end byte arrive.
TruncatedSamples ==
    { Slice(f, 0, i) \o <<sysExEnd>> :
        f \in {DataSet(d, a, <<b>>) : d \in DeviceIDs, a \in AddressSamples, b \in {0}},
        i \in 0..9 }

\* The bytes a corrupted checksum byte c is replaced with.
CorruptBytes(c) == {(c + 1) % 256, (c + 127) % 256, (c + 128) % 256}

CallSet(p, device, value) ==
    /\ pc = "ready"
    /\ process' = [process EXCEPT
          !.frame = RegisterSet(registers[p], device, value),
          !.call = [NoCall EXCEPT !.op = "Set", !.reg = p, !.device = device,
                      !.value = value],
          !.pc = "wire"]
    /\ UNCHANGED catalogVars

CallDataSet(device, addr, data) ==
    /\ pc = "ready"
    /\ process' = [process EXCEPT
          !.frame = DataSet(device, addr, data),
          !.call = [NoCall EXCEPT !.op = "DataSet", !.device = device, !.addr = addr,
                      !.data = data],
          !.pc = "wire"]
    /\ UNCHANGED catalogVars

CallDataGet(device, addr, size) ==
    /\ pc = "ready"
    /\ process' = [process EXCEPT
          !.frame = DataGet(device, addr, size),
          !.call = [NoCall EXCEPT !.op = "DataGet", !.device = device, !.addr = addr,
                      !.value = size],
          !.pc = "wire"]
    /\ UNCHANGED catalogVars

\* Register.Get on register p.
CallGet(p, device) ==
    /\ pc = "ready"
    /\ process' = [process EXCEPT
          !.frame = RegisterGet(registers[p], device),
          !.call = [NoCall EXCEPT !.op = "Get", !.reg = p, !.device = device],
          !.pc = "wire"]
    /\ UNCHANGED catalogVars

\* Names looked up: the master names and part-<n>.<field> for n = 0..17, of
\* which part-0 and part-17 were never registered.
NameSamples ==
    {masterRegisters[k].name : k \in 1..NumMaster}
    \cup {PartPrefix(n) \o partFields[f].name : n \in 0..(NumParts + 1), f \in 1..NumFields}
    \cup {"", "pan-pot", "part-1."}

\* Addresses looked up: the first 0x38 addresses of each part block, the
\* blocks of the master registers, and the addresses given to DataSet.
AddressLookups ==
    {PartBase + i * PartStride + k : i \in 0..(NumParts - 1), k \in 0..55}
    \cup {masterRegisters[1].reg.Address + k : k \in 0..7}
    \cup {masterRegisters[5].reg.Address + k : k \in 0..16}
    \cup AddressSamples

\* The result of a lookup: the pointer in value, or 0 (nil) and "missing".
Lookup(found) ==
    [NoResult EXCEPT !.status = IF found[2] THEN "found" ELSE "missing",
                     !.value = found[1]]

CallRegisterByName(name) ==
    /\ pc = "ready"
    /\ process' = [process EXCEPT
          !.ret = Lookup(RegisterByName(name)),
          !.call = [NoCall EXCEPT !.op = "RegisterByName", !.name = name],
          !.pc = "done"]
    /\ UNCHANGED catalogVars

CallRegisterByAddress(addr) ==
    /\ pc = "ready"
    /\ process' = [process EXCEPT
          !.ret = Lookup(RegisterByAddress(addr)),
          !.call = [NoCall EXCEPT !.op = "RegisterByAddress", !.addr = addr],
          !.pc = "done"]
    /\ UNCHANGED catalogVars

\* Register.Name on register p.
CallName(p) ==
    /\ pc = "ready"
    /\ process' = [process EXCEPT
          !.ret = [NoResult EXCEPT !.status = "ok", !.name = RegisterNameOf(p)],
          !.call = [NoCall EXCEPT !.op = "Name", !.reg = p],
          !.pc = "done"]
    /\ UNCHANGED catalogVars

\* PartByNumber made to register the part when it is asked for: the loop of
\* Part.init run again on the part it returns.
CallPartByNumber_registersPart(i) ==
    /\ pc = "ready"
    /\ process' = [process EXCEPT
          !.ret = [NoResult EXCEPT
                     !.status = IF PartByNumber(i) = -1 THEN "nil" ELSE "found",
                     !.value = PartByNumber(i)],
          !.call = [NoCall EXCEPT !.op = "PartByNumber", !.value = i],
          !.pc = "done"]
    /\ IF PartByNumber(i) = -1
       THEN UNCHANGED <<registers, registersByAddress, registersByName,
                        registerName, isImportant>>
       ELSE SetCatalog(PartInitFields(CurrentCatalog, PartByNumber(i), PartPrefix(i),
                                      PartBase + PartIndex(i) * PartStride, 1))
    /\ UNCHANGED initPos

\* PartByNumber(i): the part as its index into parts, or nil.
CallPartByNumber(i) ==
    /\ pc = "ready"
    /\ process' = [process EXCEPT
          !.ret = [NoResult EXCEPT
                     !.status = IF PartByNumber(i) = -1 THEN "nil" ELSE "found",
                     !.value = PartByNumber(i)],
          !.call = [NoCall EXCEPT !.op = "PartByNumber", !.value = i],
          !.pc = "done"]
    /\ UNCHANGED catalogVars

\* The orders the range loop of AllRegisters visits the address index in.
RangeOrders == {<<0, FALSE>>, <<1, FALSE>>, <<NumMaster, TRUE>>}

\* AllRegisters, called once or twice by the same process; the result of
\* the first call is kept in call.earlier when the second is made.
CallAllRegisters(order) ==
    /\ pc = "ready" \/ (pc = "done" /\ call.op = "AllRegisters" /\ call.calls = 1)
    /\ process' = [process EXCEPT
          !.ret = [NoResult EXCEPT !.status = "ok", !.regs = AllRegisters(order)],
          !.call = [NoCall EXCEPT !.op = "AllRegisters", !.order = order,
                      !.calls = call.calls + 1, !.earlier = ret.regs],
          !.pc = "done"]
    /\ UNCHANGED catalogVars

\* Register.Important on register p.
CallImportant(p) ==
    /\ pc = "ready"
    /\ process' = [process EXCEPT
          !.ret = [NoResult EXCEPT !.status = IF Important(p) THEN "true" ELSE "false"],
          !.call = [NoCall EXCEPT !.op = "Important", !.reg = p],
          !.pc = "done"]
    /\ UNCHANGED catalogVars

\* checksum applied to a body on its own (DataSet, DataGet and UnmarshalSet
\* call it with the bytes between the command byte and the checksum byte).
CallChecksum(body) ==
    /\ pc = "ready"
    /\ process' = [process EXCEPT
          !.ret = [NoResult EXCEPT !.status = "ok", !.value = checksum(body)],
          !.call = [NoCall EXCEPT !.op = "checksum", !.data = body],
          !.pc = "done"]
    /\ UNCHANGED catalogVars

\* Bytes arrive from the input stream without a message having been built.
Receive(raw) ==
    /\ pc = "ready"
    /\ process' = [process EXCEPT
          !.frame = raw,
          !.call = [NoCall EXCEPT !.op = "Receive"],
          !.pc = "wire"]
    /\ UNCHANGED catalogVars

\* The checksum byte (position len-2) of a message built by DataSet (directly
\* or through Register.Set) is replaced by another byte value on the way.
CorruptChecksum(b) ==
    /\ pc = "wire"
    /\ call.op \in {"Set", "DataSet"}
    /\ ~call.corrupted
    /\ b # At(frame, Len(frame) - 2)
    /\ process' = [process EXCEPT
          !.frame = [frame EXCEPT ![Len(frame) - 1] = b],
          !.call = [call EXCEPT !.corrupted = TRUE]]
    /\ UNCHANGED catalogVars

DecodeUnmarshalSet ==
    /\ pc = "wire"
    /\ process' = [process EXCEPT
          !.ret = UnmarshalSet(frame),
          !.call = [call EXCEPT !.decoder = "UnmarshalSet"],
          !.pc = "done"]
    /\ UNCHANGED catalogVars

\* Registers a message is decoded with when it was not built by Register.Set:
\* MasterTune (4 bytes), MasterVolume (1 byte), MasterKeyShift (1 byte, with a
\* Min above 0) and part 1's first field (2 bytes).
ProbeRegisters == {MasterPtr(1), MasterPtr(2), MasterPtr(3), FieldPtr(0, 1)}

DecodeUnmarshal(p) ==
    /\ pc = "wire"
    /\ p \in Pointers
    /\ p = call.reg \/ (call.op # "Set" /\ p \in ProbeRegisters)
    /\ process' = [process EXCEPT
          !.ret = RegisterUnmarshal(registers[p], frame),
          !.call = [call EXCEPT !.decoder = "Unmarshal", !.with = p],
          !.pc = "done"]
    /\ UNCHANGED catalogVars

\* Texts given to DisplayMessage: one of each length up to MaxText bytes,
\* made of the letters from "A" on and, in a second set, of bytes above 127.
TextSamples ==
    {[j \in 1..n |-> 64 + j] : n \in 0..MaxText}
    \cup {[j \in 1..n |-> 255 - j] : n \in 1..MaxText}

CallDisplayMessage(device, text) ==
    /\ pc = "ready"
    /\ process' = [process EXCEPT
          !.frame = DisplayMessage(device, text),
          !.call = [NoCall EXCEPT !.op = "DisplayMessage", !.device = device,
                      !.data = text],
          !.pc = "wire"]
    /\ UNCHANGED catalogVars

\* Colours: white, black, and the two greys on either side of the test
\* (r+g+b)/3 > 0x8000.
White == <<65535, 65535, 65535>>
Black == <<0, 0, 0>>
GreyAbove == <<32769, 32769, 32769>>
GreyAt == <<65535, 32768, 3>>

\* Images given to DisplayImage.  16x16: no pixel lit, each single pixel,
\* each row, each column, all pixels, a chequerboard, in white on black;
\* some of them in the two greys; and images with other bounds.
LitSamples ==
    {{}, Pixels, {p \in Pixels : (p[1] + p[2]) % 2 = 0}}
    \cup {{p} : p \in Pixels}
    \cup {{p \in Pixels : p[1] = x} : x \in 0..15}
    \cup {{p \in Pixels : p[2] = y} : y \in 0..15}

ImageSamples ==
    {Image(<<0, 0>>, <<16, 16>>, lit, White, Black) : lit \in LitSamples}
    \cup {Image(<<0, 0>>, <<16, 16>>, lit, GreyAbove, GreyAt) :
             lit \in {{}, Pixels, {<<0, 0>>}, {<<15, 15>>}, {<<4, 0>>, <<5, 0>>}}}
    \cup {Image(<<0, 0>>, <<16, 16>>, {<<0, 0>>}, Black, White)}
    \cup {Image(min, max, {<<1, 1>>}, White, Black) :
             min \in {<<0, 0>>, <<1, 1>>}, max \in {<<15, 16>>, <<16, 17>>, <<17, 17>>}}

CallDisplayImage(device, img) ==
    /\ pc = "ready"
    /\ \E res \in {DisplayImage(device, img)} :
           process' = [process EXCEPT
             !.frame = res.msg,
             !.ret = IF res.err = "" THEN NoResult ELSE Failed(res.err),
             !.call = [NoCall EXCEPT !.op = "DisplayImage", !.device = device,
                         !.image = img],
             !.pc = IF res.err = "" THEN "wire" ELSE "done"]
    /\ UNCHANGED catalogVars

\* The display commands.
DisplayCalls ==
    \/ (pc = "ready" /\ \E d \in DeviceIDs, text \in TextSamples :
          CallDisplayMessage(d, text))
    \/ (pc = "ready" /\ \E d \in DeviceIDs, img \in ImageSamples :
          CallDisplayImage(d, img))

-----------------------------------------------------------------------------
(* register-get: queryRegister, one iteration of its loop at a time. *)

\* The clock is followed until it is this far past the longest timeout.
ClockCap == MaxTimeout + 2

\* for len(reply) > 0 && reply[len(reply)-1] == 0 { reply = reply[:len(reply)-1] }
RECURSIVE StripZeros(_)
StripZeros(reply) ==
    IF Len(reply) > 0 /\ At(reply, Len(reply) - 1) = 0
    THEN StripZeros(Slice(reply, 0, Len(reply) - 1))
    ELSE reply

\* Registers queried, and the other device on the bus.
QueryRegisters == {MasterPtr(1), MasterPtr(3), FieldPtr(0, 1), FieldPtr(15, NumFields)}
OtherDevice(device) == IF device = DefaultDevice THEN DefaultDevice + 1 ELSE DefaultDevice

\* What one ReadSysExBytes call returns while register p is queried: nothing,
\* the reply of the device (also padded with zero bytes), the same reply
\* from another device, a reply for another register, the two-byte message
\* F0 F7, a DT1 message cut short, and zero bytes only.
ReplySamples(p, device) ==
    LET r == registers[p]
        other == registers[IF p = MasterPtr(1) THEN MasterPtr(2) ELSE MasterPtr(1)]
    IN  { <<>>,
          RegisterSet(r, device, 0),
          RegisterSet(r, device, 0) \o <<0, 0>>,
          RegisterSet(r, OtherDevice(device), 0),
          RegisterSet(other, device, 0),
          <<sysExStart, sysExEnd>>,
          <<sysExStart, manufacturerID, device, 66, cmdDT1, sysExEnd>>,
          <<0, 0>> }

\* The start of queryRegister: the request is written (or the write fails)
\* and the time to stop at is fixed.
QueryWrite(p, device, timeout, written) ==
    /\ pc = "ready"
    /\ process' = [process EXCEPT
          !.frame = RegisterGet(registers[p], device),
          !.call = [NoCall EXCEPT !.op = "queryRegister", !.reg = p,
                      !.device = device, !.value = timeout],
          !.ret = IF written THEN NoResult ELSE Failed("write failed"),
          !.timeoutTime = clock + timeout,
          !.pc = IF written THEN "reading" ELSE "done"]
    /\ UNCHANGED catalogVars

\* One iteration of the loop of queryRegister: ReadSysExBytes returns reply,
\* or fails.
QueryRead(reply, failed) ==
    /\ pc = "reading"
    /\ LET stripped == StripZeros(reply)
           u == RegisterUnmarshal(registers[call.reg], stripped)
       IN  process' =
             IF failed
             THEN [process EXCEPT !.ret = Failed("read failed"), !.pc = "done"]
             ELSE IF Len(reply) = 0
             THEN IF clock > timeoutTime
                  THEN [process EXCEPT !.ret = Failed("timeout"), !.frame = reply,
                                       !.pc = "done"]
                  ELSE [process EXCEPT !.frame = reply,
                          !.clock = IF clock < ClockCap THEN clock + 1 ELSE clock]
             ELSE IF u.status = "panic"
             THEN [process EXCEPT !.ret = u, !.frame = reply, !.pc = "done"]
             ELSE IF u.status = "ok" /\ u.dev = call.device
             THEN [process EXCEPT !.ret = u, !.frame = reply, !.pc = "done"]
             ELSE [process EXCEPT !.frame = reply]
    /\ UNCHANGED catalogVars

\* Time passes while queryRegister waits.
Tick ==
    /\ pc = "reading"
    /\ clock < ClockCap
    /\ process' = [process EXCEPT !.clock = clock + 1]
    /\ UNCHANGED catalogVars

\* The iterations of the loop.
QueryLoop ==
    pc = "reading" /\ \E reply \in ReplySamples(call.reg, call.device), failed \in BOOLEAN :
        QueryRead(reply, failed)

\* register-get.
QueryCalls ==
    \/ (pc = "ready" /\ \E p \in QueryRegisters, d \in DeviceIDs, timeout \in 1..MaxTimeout,
                             written \in BOOLEAN : QueryWrite(p, d, timeout, written))
    \/ QueryLoop
    \/ Tick

\* init() and the lookups in the catalog.
NextCatalog ==
    \/ AddMaster
    \/ InitPart
    \/ (pc = "ready" /\ \E name \in NameSamples : CallRegisterByName(name))
    \/ (pc = "ready" /\ \E addr \in AddressLookups : CallRegisterByAddress(addr))
    \/ (pc \in {"ready", "done"} /\ \E order \in RangeOrders : CallAllRegisters(order))
    \/ (pc = "ready" /\ \E p \in Pointers : CallImportant(p))
    \/ (pc = "ready" /\ \E p \in Pointers : CallName(p))
    \/ (pc = "ready" /\ \E i \in 0..(NumParts + 1) : CallPartByNumber(i))

\* The calls that build and decode messages.
NextCodec ==
    \/ (pc = "ready" /\ \E p \in Pointers, d \in DeviceIDs :
          \E v \in ValueSamples(registers[p]) : CallSet(p, d, v))
    \/ (pc = "ready" /\ \E p \in Pointers, d \in DeviceIDs : CallGet(p, d))
    \/ (pc = "ready" /\ \E d \in DeviceIDs \cup {0}, a \in AddressSamples,
                             data \in DataSamples :
          CallDataSet(d, a, data))
    \/ (pc = "ready" /\ \E d \in DeviceIDs, a \in AddressSamples, size \in 1..4 :
          CallDataGet(d, a, size))
    \/ (pc = "ready" /\ \E body \in DataSamples : CallChecksum(body))
    \/ (pc = "ready" /\ \E raw \in RawSamples \cup TruncatedSamples : Receive(raw))
    \/ (pc = "wire" /\ call.op \in {"Set", "DataSet"} /\
          \E b \in CorruptBytes(At(frame, Len(frame) - 2)) : CorruptChecksum(b))
    \/ DecodeUnmarshalSet
    \/ (pc = "wire" /\ \E p \in ProbeRegisters \cup {call.reg} : DecodeUnmarshal(p))

\* init(), the display commands and the decoding of what they built.
NextDisplay ==
    \/ AddMaster
    \/ InitPart
    \/ DisplayCalls
    \/ DecodeUnmarshalSet

\* init() and register-get.
NextQuery ==
    \/ AddMaster
    \/ InitPart
    \/ QueryCalls

Next == NextCatalog \/ NextCodec \/ DisplayCalls \/ QueryCalls

Spec == Init /\ [][Next]_vars

\* The catalog alone: init() and the lookups.
SpecCatalog == Init /\ [][NextCatalog]_vars

\* The display commands alone.
SpecDisplay == Init /\ [][NextDisplay]_vars

\* register-get alone.  The loop of queryRegister keeps running (it does
\* not block: ReadSysExBytes returns what is there, Sleep returns after a
\* millisecond) and time keeps passing.
SpecQuery ==
    Init /\ [][NextQuery]_vars /\ WF_vars(QueryLoop) /\ WF_vars(Tick)


-----------------------------------------------------------------------------
(* Properties. *)

\* The register a Set call was made on, and its logical range.
SetReg == registers[call.reg]
SetCalled == call.op = "Set" /\ ~call.corrupted
InLogicalRange ==
    /\ SetReg.Min - SetReg.Zero <= call.value
    /\ call.value <= SetReg.Max - SetReg.Zero

\* The data bytes of the frame in flight (between the address and the
\* checksum byte) and their value read least significant byte first.
FramePayload == SubSeq(frame, 9, Len(frame) - 2)
RECURSIVE LittleEndian(_)
LittleEndian(bytes) ==
    IF bytes = <<>> THEN 0 ELSE Head(bytes) + 256 * LittleEndian(Tail(bytes))

\* C1: a message built by r.Set(d, v) with Min-Zero <= v <= Max-Zero and
\* decoded by r.Unmarshal gives back the device d and the value v, with no
\* error, for every register of the catalog.
C1_RoundTrip ==
    (/\ pc = "done"
     /\ SetCalled
     /\ call.decoder = "Unmarshal"
     /\ call.with = call.reg
     /\ InLogicalRange)
    => (/\ ret.status = "ok"
        /\ ret.dev = call.device
        /\ ret.value = call.value)

\* C1's case: a two-byte part register with a non-zero offset, set to an
\* in-range value and decoded again.
C1_Witness ==
    /\ pc = "done"
    /\ SetCalled
    /\ call.decoder = "Unmarshal"
    /\ call.with = call.reg
    /\ InLogicalRange
    /\ call.reg > NumMaster
    /\ SetReg.Size = 2
    /\ SetReg.Zero # 0
    /\ ret.status = "ok"
    /\ ret.value = call.value

\* C2 as stated: the raw value Set encodes is clamp(v, Min, Max) + Zero, the
\* bounds applied to the supplied value before Zero is added.
C2_ClampThenOffset ==
    (pc = "wire" /\ SetCalled)
    => LET v == call.value
           bounded == IF v < SetReg.Min THEN SetReg.Min
                      ELSE IF v > SetReg.Max THEN SetReg.Max ELSE v
       IN  LittleEndian(FramePayload) = bounded + SetReg.Zero

\* C2 amended: the raw value Set encodes is clamp(v + Zero, Min, Max): Zero
\* is added to the supplied value first and the sum is then bounded by Min
\* and Max.
C2_OffsetThenClamp ==
    (pc = "wire" /\ SetCalled)
    => LET raw == call.value + SetReg.Zero
           bounded == IF raw < SetReg.Min THEN SetReg.Min
                      ELSE IF raw > SetReg.Max THEN SetReg.Max ELSE raw
       IN  /\ Len(FramePayload) = SetReg.Size
           /\ LittleEndian(FramePayload) = bounded

\* C2's case: a register with a non-zero offset set to a value whose raw
\* value lies above Max, so that the order of the two steps shows.
C2_Witness ==
    /\ pc = "wire"
    /\ SetCalled
    /\ SetReg.Zero # 0
    /\ call.value + SetReg.Zero > SetReg.Max
    /\ LittleEndian(FramePayload) = SetReg.Max

\* C3: Set with a value below Min-Zero returns the same frame as Set with
\* Min-Zero, and Set with a value above Max-Zero the same frame as Set with
\* Max-Zero.
C3_ClampBoundaries ==
    (pc = "wire" /\ SetCalled)
    => /\ call.value < SetReg.Min - SetReg.Zero
            => frame = RegisterSet(SetReg, call.device, SetReg.Min - SetReg.Zero)
       /\ call.value > SetReg.Max - SetReg.Zero
            => frame = RegisterSet(SetReg, call.device, SetReg.Max - SetReg.Zero)

\* C3's case: a register whose Min is not 0 set to a value below Min-Zero.
C3_Witness ==
    /\ pc = "wire"
    /\ SetCalled
    /\ SetReg.Min > 0
    /\ call.value < SetReg.Min - SetReg.Zero
    /\ LittleEndian(FramePayload) = SetReg.Min

\* C4: DataSet(d, a, data) is F0, 41, d, the model ID for a, 12, the three
\* bytes of a most significant first, the data bytes in order, the checksum
\* of the address and data bytes, F7; its length is 10 + len(data).
C4_DataSetLayout ==
    (pc = "wire" /\ call.op = "DataSet" /\ ~call.corrupted)
    => LET a == call.addr
           n == Len(call.data)
           a1 == a \div 65536
           a2 == (a \div 256) % 256
           a3 == a % 256
           sum == a1 + a2 + a3 + SumBytes(call.data)
       IN  /\ Len(frame) = 10 + n
           /\ frame[1] = 240
           /\ frame[2] = 65
           /\ frame[3] = call.device
           /\ frame[4] = (IF a < 4194304 THEN 69 ELSE 66)
           /\ frame[5] = 18
           /\ frame[6] = a1 /\ frame[7] = a2 /\ frame[8] = a3
           /\ \A i \in 1..n : frame[8 + i] = call.data[i]
           /\ frame[9 + n] = (128 - (sum % 128)) % 128
           /\ frame[10 + n] = 247

\* C4's case: a DataSet call with the longest data and an address whose
\* three bytes differ.
C4_Witness ==
    /\ pc = "wire"
    /\ call.op = "DataSet"
    /\ ~call.corrupted
    /\ call.addr = PartBase + PartStride
    /\ Len(call.data) = MaxData
    /\ call.data[1] = 255
    /\ Len(frame) = 10 + MaxData

\* The body the checksum byte of a built frame was computed over.
FrameBody == SubSeq(frame, 6, Len(frame) - 2)
FrameChecksum == frame[Len(frame) - 1]

\* C5: checksum(body) is in 0..127 and (sum of the body bytes +
\* checksum(body)) mod 128 = 0, for the empty body and for a body whose sum
\* is a multiple of 128 too (the checksum is then 0, not 128); the same
\* holds of the checksum byte of every frame DataSet and DataGet build.
C5_ChecksumRange ==
    /\ (pc = "done" /\ call.op = "checksum")
       => /\ ret.value \in 0..127
          /\ (SumBytes(call.data) + ret.value) % 128 = 0
          /\ (SumBytes(call.data) % 128 = 0 => ret.value = 0)
    /\ (pc = "wire" /\ call.op \in {"Set", "DataSet", "DataGet"} /\ ~call.corrupted)
       => /\ FrameChecksum \in 0..127
          /\ (SumBytes(FrameBody) + FrameChecksum) % 128 = 0

\* C5's case: checksum applied to a non-empty body whose bytes add up to a
\* multiple of 128.
C5_Witness ==
    /\ pc = "done"
    /\ call.op = "checksum"
    /\ call.data # <<>>
    /\ SumBytes(call.data) > 0
    /\ SumBytes(call.data) % 128 = 0
    /\ ret.value = 0

\* C6: a frame built by DataSet whose checksum byte was replaced by a
\* different value is rejected by UnmarshalSet and by Register.Unmarshal:
\* an error is returned, and no device, address, payload or value.
C6_CorruptedChecksumRejected ==
    (pc = "done" /\ call.corrupted)
    => /\ ret.status = "error"
       /\ ret.err = "wrong checksum"
       /\ ret.dev = 0 /\ ret.addr = 0 /\ ret.payload = <<>> /\ ret.value = 0

\* C6's case: a frame of a register, with the checksum byte off by 128,
\* decoded by that register's Unmarshal.
C6_Witness ==
    /\ pc = "done"
    /\ call.corrupted
    /\ call.op = "Set"
    /\ call.decoder = "Unmarshal"
    /\ FrameChecksum >= 128
    /\ ret.status = "error"

\* C7: for every byte sequence of length 0 to 9 UnmarshalSet returns an
\* error value to its caller (it does not fault).
C7_ShortFramesReported ==
    (pc = "done" /\ call.decoder = "UnmarshalSet" /\ Len(frame) <= 9)
    => ret.status = "error"

\* C8: byte 3 of the frames DataSet and DataGet build is 0x45 when the
\* address is below 0x400000 and 0x42 when it is 0x400000 or above.
C8_ModelIDSelection ==
    (pc = "wire" /\ call.op \in {"DataSet", "DataGet"})
    => frame[4] = (IF call.addr < 4194304 THEN 69 ELSE 66)

\* C8's case: a DataGet frame for address 0x400000 itself.
C8_Witness ==
    /\ pc = "wire"
    /\ call.op = "DataGet"
    /\ call.addr = 4194304
    /\ frame[4] = 66

\* The part index the claim gives for part number n.
ClaimedIndex(n) == IF n <= 9 THEN n ELSE IF n = 10 THEN 0 ELSE n - 1
ClaimedBase(n) == 4198400 + ClaimedIndex(n) * 256

\* C9: once init() has run, every register of part n (1..16) has address
\* 0x401000 + idx(n)*0x100 + its relative address in the template, with
\* idx(n) = n for n <= 9, idx(10) = 0, idx(n) = n-1 for n >= 11; part 1 is at
\* 0x401100, part 10 at 0x401000, part 11 at 0x401A00, part 16 at 0x401F00,
\* and the 16 bases differ pairwise.
C9_PartBaseAddresses ==
    pc # "init"
    => /\ \A n \in 1..16 : \A f \in 1..NumFields :
            registers[FieldPtr(PartByNumber(n), f)].Address
                = ClaimedBase(n) + templatePart[f].Address
       /\ registers[FieldPtr(PartByNumber(1), 1)].Address = 4198656
       /\ registers[FieldPtr(PartByNumber(10), 1)].Address = 4198400
       /\ registers[FieldPtr(PartByNumber(11), 1)].Address = 4200960
       /\ registers[FieldPtr(PartByNumber(16), 1)].Address = 4202240
       /\ \A m, n \in 1..16 :
            m # n => registers[FieldPtr(PartByNumber(m), 1)].Address
                        # registers[FieldPtr(PartByNumber(n), 1)].Address

\* C9's case: init() has run, and parts 10 and 11 sit at blocks 0 and 10.
C9_Witness ==
    /\ pc = "ready"
    /\ initPos = NumMaster + NumParts
    /\ RegisterByName("part-10.tone-number-cc") = <<FieldPtr(9, 1), TRUE>>
    /\ registers[FieldPtr(9, 1)].Address = 4198400
    /\ registers[FieldPtr(10, NumFields)].Address = 4200960 + 55

\* The name the claim gives field f of part number n.
ClaimedName(n, f) == "part-" \o ToString(n) \o "." \o partFields[f].name

\* C10: once init() has run, no two registers share an address or a name:
\* both indexes hold one entry per register, RegisterByAddress(r.Address)
\* and RegisterByName(r.Name()) return (r, true) for every register r, the
\* part registers are named part-<n>.<field>, and a key that was never
\* registered is not found.
C10_IndexesConsistent ==
    pc # "init"
    => /\ \A r \in Pointers :
            /\ RegisterByAddress(registers[r].Address) = <<r, TRUE>>
            /\ RegisterByName(RegisterNameOf(r)) = <<r, TRUE>>
       /\ \A n \in 1..16 : \A f \in 1..NumFields :
            RegisterNameOf(FieldPtr(n - 1, f)) = ClaimedName(n, f)
       /\ \A k \in 1..NumMaster : RegisterNameOf(MasterPtr(k)) = masterRegisters[k].name
       /\ Cardinality(DOMAIN registersByAddress) = Cardinality(Pointers)
       /\ Cardinality(DOMAIN registersByName) = Cardinality(Pointers)
       /\ \A a \in AddressSamples :
            a \notin {registers[r].Address : r \in Pointers}
                => RegisterByAddress(a) = <<0, FALSE>>
       /\ \A name \in {"", "part-0.pan-pot", "part-17.pan-pot", "part-1.", "pan-pot"} :
            RegisterByName(name) = <<0, FALSE>>
       /\ (pc = "done" /\ call.op = "RegisterByAddress")
            => IF \E r \in Pointers : registers[r].Address = call.addr
               THEN ret.status = "found" /\ registers[ret.value].Address = call.addr
               ELSE ret.status = "missing" /\ ret.value = 0
       /\ (pc = "done" /\ call.op = "RegisterByName")
            => IF \E r \in Pointers : RegisterNameOf(r) = call.name
               THEN ret.status = "found" /\ RegisterNameOf(ret.value) = call.name
               ELSE ret.status = "missing" /\ ret.value = 0

\* C10's case: init() has run and a lookup found the last field of part 16
\* under its name; it is under its address too, while part 17 is not found.
C10_Witness ==
    /\ pc = "done"
    /\ call.op = "RegisterByName"
    /\ call.name = "part-16.tone-modify-8"
    /\ ret.status = "found"
    /\ ret.value = FieldPtr(15, NumFields)
    /\ RegisterByAddress(4202240 + 55) = <<FieldPtr(15, NumFields), TRUE>>
    /\ RegisterByName("part-17.tone-modify-8") = <<0, FALSE>>

\* C11: every call of AllRegisters returns each registered register exactly
\* once (the 19 master registers and the 42 fields of each of the 16 parts,
\* 691 in all) in strictly ascending order of Address, and a second call
\* returns the same sequence as the first.
C11_AllRegistersSorted ==
    (pc = "done" /\ call.op = "AllRegisters")
    => /\ Len(ret.regs) = 19 + 16 * 42
       /\ {ret.regs[j] : j \in 1..Len(ret.regs)} = Pointers
       /\ \A j \in 1..(Len(ret.regs) - 1) :
            registers[ret.regs[j]].Address < registers[ret.regs[j + 1]].Address
       /\ call.calls = 2 => ret.regs = call.earlier

\* C11's case: a second call that ranged over the map in another order than
\* the first; part 10's tone number (block 0) precedes part 1's (block 1).
C11_Witness ==
    /\ pc = "done"
    /\ call.op = "AllRegisters"
    /\ call.calls = 2
    /\ call.order = <<NumMaster, TRUE>>
    /\ call.earlier = ret.regs
    /\ ret.regs[1] = MasterPtr(1)
    /\ ret.regs[NumMaster + 1] = FieldPtr(9, 1)
    /\ ret.regs[NumMaster + NumFields + 1] = FieldPtr(0, 1)

\* The fields of a part the claim lists as important.
ClaimedImportantFields ==
    {"tone-number-cc", "pitch-key-shift", "part-level", "pan-pot",
     "reverb-send-level", "chorus-send-level"}

\* C12: once init() has run, for every part number n in 1..16 the registers
\* for tone number, pitch key shift, part level, pan pot, reverb send level
\* and chorus send level of part n are reported as important by
\* Register.Important, and no other register of the part is.
C12_PartImportantSet ==
    /\ pc # "init"
       => \A n \in 1..16 : \A f \in 1..NumFields :
            Important(FieldPtr(PartByNumber(n), f))
                <=> (partFields[f].name \in ClaimedImportantFields)
    /\ (pc = "done" /\ call.op = "Important" /\ call.reg > NumMaster)
       => (ret.status = "true"
            <=> \E name \in ClaimedImportantFields, n \in 1..16 :
                    RegisterNameOf(call.reg) = "part-" \o ToString(n) \o "." \o name)

\* Where C12 fails: Important, called on the tone number register of part
\* 1, returns false, while it returns true for the other five fields.
C12_Witness ==
    /\ pc = "done"
    /\ call.op = "Important"
    /\ call.reg = FieldPtr(PartByNumber(1), 1)
    /\ RegisterNameOf(call.reg) = "part-1.tone-number-cc"
    /\ ret.status = "false"
    /\ \A name \in ClaimedImportantFields \ {"tone-number-cc"} :
          Important(RegisterByName("part-1." \o name)[1])

\* max < 256^size for size >= 1, written without the power 256^4.
FitsUnsigned(max, size) == max \div Pow256(size - 1) < 256

\* C13: every register of the catalog (the master registers and all fields
\* of the 16 parts) has Min <= Zero <= Max, Size in 1..4 and Max < 256^Size.
C13_RegistersWellFormed ==
    pc # "init"
    => \A r \in Pointers :
         /\ registers[r].Min <= registers[r].Zero
         /\ registers[r].Zero <= registers[r].Max
         /\ registers[r].Size \in 1..4
         /\ FitsUnsigned(registers[r].Max, registers[r].Size)

\* Where C13 fails: the pitch offset fine register of a part, found under
\* its name, has its Zero (0x800) above its Max (0xf8); every other register
\* of the catalog meets the three conditions.
C13_Witness ==
    /\ pc = "done"
    /\ call.op = "RegisterByName"
    /\ call.name = "part-1.pitch-offset-fine"
    /\ ret.status = "found"
    /\ registers[ret.value].Zero = 2048
    /\ registers[ret.value].Max = 248
    /\ \A r \in Pointers :
          \/ \E n \in 1..16 : RegisterNameOf(r) = "part-" \o ToString(n) \o ".pitch-offset-fine"
          \/ /\ registers[r].Min <= registers[r].Zero
             /\ registers[r].Zero <= registers[r].Max
             /\ registers[r].Size \in 1..4
             /\ FitsUnsigned(registers[r].Max, registers[r].Size)

\* C14: for a frame that UnmarshalSet accepts, r.Unmarshal returns an error
\* when the address in the frame differs from r.Address, when the number of
\* payload bytes differs from r.Size, or when the payload read least
\* significant byte first is below r.Min or above r.Max; in every other case
\* it returns the device byte of the frame and that value minus r.Zero,
\* with no error.
C14_UnmarshalChecks ==
    (pc = "done" /\ call.decoder = "Unmarshal" /\ UnmarshalSet(frame).status = "ok")
    => LET r == registers[call.with]
           addr == frame[6] * 65536 + frame[7] * 256 + frame[8]
           raw == LittleEndian(FramePayload)
       IN  IF \/ addr # r.Address
              \/ Len(FramePayload) # r.Size
              \/ raw < r.Min
              \/ raw > r.Max
           THEN ret.status = "error" /\ ret.dev = 0 /\ ret.value = 0
           ELSE /\ ret.status = "ok"
                /\ ret.dev = frame[3]
                /\ ret.value = raw - r.Zero

\* C14's case: a valid frame for the address of MasterKeyShift with one
\* data byte below its Min, decoded with MasterKeyShift, is rejected, and
\* the reason is the range, not the address or the size.
C14_Witness ==
    /\ pc = "done"
    /\ call.op = "DataSet"
    /\ ~call.corrupted
    /\ call.decoder = "Unmarshal"
    /\ call.with = MasterPtr(3)
    /\ call.addr = registers[MasterPtr(3)].Address
    /\ Len(call.data) = registers[MasterPtr(3)].Size
    /\ call.data[1] < registers[MasterPtr(3)].Min
    /\ UnmarshalSet(frame).status = "ok"
    /\ ret.status = "error"
    /\ ret.err = "out of range"

\* The 64 bytes DisplayImage sent, and whether bit b of byte k is set.
ImageBuffer == SubSeq(frame, 9, Len(frame) - 2)
BufferBit(k, b) == (ImageBuffer[k + 1] \div Pow2(b)) % 2 = 1
PixelIsSet(x, y) == Bright(PixelAt(call.image, x, y))

\* C15: for every 16x16 image the buffer DisplayImage sends has 64 bytes;
\* bit 4-(x mod 5) of byte (x div 5)*16 + y is set exactly when pixel (x, y)
\* is set, and every other bit is clear; distinct pixels have distinct
\* (byte, bit) positions and every byte index is in 0..63; an image with no
\* pixel set gives 64 zero bytes, and one with only pixel (0,0) set gives
\* byte 0 = 16 (bit 4) and 63 zero bytes.
C15_BitmapPacking ==
    (pc = "wire" /\ call.op = "DisplayImage")
    => LET position(p) == <<(p[1] \div 5) * 16 + p[2], 4 - (p[1] % 5)>>
           positions == {position(p) : p \in Pixels}
           set == {p \in Pixels : PixelIsSet(p[1], p[2])}
       IN  /\ Len(ImageBuffer) = 64
           /\ frame = DataSet(call.device, 1048832, ImageBuffer)
           /\ \A p \in Pixels :
                BufferBit(position(p)[1], position(p)[2]) <=> p \in set
           /\ \A k \in 0..63, b \in 0..7 :
                <<k, b>> \notin positions => ~BufferBit(k, b)
           /\ Cardinality(positions) = 256
           /\ \A q \in positions : q[1] \in 0..63
           /\ set = {} => \A k \in 0..63 : ImageBuffer[k + 1] = 0
           /\ set = {<<0, 0>>}
                => \A k \in 0..63 : ImageBuffer[k + 1] = (IF k = 0 THEN 16 ELSE 0)

\* C15's case: the image with only the last column (x = 15) set: bit 4 of
\* each of the bytes 48..63, and nothing else.
C15_Witness ==
    /\ pc = "wire"
    /\ call.op = "DisplayImage"
    /\ call.image.lit = {p \in Pixels : p[1] = 15}
    /\ PixelIsSet(15, 0)
    /\ ~PixelIsSet(14, 0)
    /\ \A k \in 0..63 : ImageBuffer[k + 1] = (IF k >= 48 THEN 16 ELSE 0)

\* C18: DisplayMessage(d, text) is DataSet(d, 0x100000, p) with p the first
\* min(len(text), 31) bytes of text: the payload is never longer than 31
\* bytes nor the frame longer than 41, and a text of 31 bytes or fewer is
\* sent unchanged.
C18_DisplayMessageTruncation ==
    (pc = "wire" /\ call.op = "DisplayMessage")
    => LET text == call.data
           n == IF Len(text) < 31 THEN Len(text) ELSE 31
           p == SubSeq(text, 1, n)
       IN  /\ frame = DataSet(call.device, 1048576, p)
           /\ FramePayload = p
           /\ frame[6] = 16 /\ frame[7] = 0 /\ frame[8] = 0
           /\ Len(FramePayload) <= 31
           /\ Len(frame) = 10 + n
           /\ Len(frame) <= 41
           /\ Len(text) <= 31 => FramePayload = text

\* C18's case: a text of more than 31 bytes, of which the first 31 are sent
\* in a frame of 41 bytes.
C18_Witness ==
    /\ pc = "wire"
    /\ call.op = "DisplayMessage"
    /\ Len(call.data) > 31
    /\ Len(frame) = 41
    /\ FramePayload = SubSeq(call.data, 1, 31)
    /\ FramePayload # call.data

\* C16: once init() has run, no call of Register.Get, Set, Unmarshal,
\* Important or Name, of RegisterByName, RegisterByAddress, AllRegisters or
\* PartByNumber, or of DataSet, DataGet or UnmarshalSet changes the Address,
\* Size, Min, Max or Zero of a register, the by-name index, the by-address
\* index, the name map or the important set.
C16_CatalogReadOnly ==
    [][pc # "init"
       => /\ registers' = registers
          /\ registersByName' = registersByName
          /\ registersByAddress' = registersByAddress
          /\ registerName' = registerName
          /\ isImportant' = isImportant]_vars

\* C16's case: init() has run, PartByNumber(16) has returned the last part,
\* and the catalog is the one init() built: 691 registers under 691 names
\* and addresses, 6 + 16*5 of them important, the last field of part 16 at
\* its address.
C16_Witness ==
    /\ pc = "done"
    /\ call.op = "PartByNumber"
    /\ call.value = 16
    /\ ret.status = "found"
    /\ registers[FieldPtr(ret.value, NumFields)] = Reg(4202240 + 55, 1, 14, 114, 64)
    /\ Cardinality(DOMAIN registersByName) = 691
    /\ Cardinality(DOMAIN registersByAddress) = 691
    /\ Cardinality(DOMAIN registerName) = 691
    /\ Cardinality(isImportant) = 6 + 16 * 5

\* C17: r.Get(d) is DataGet(d, r.Address, r.Size), and DataGet(d, a, size) is
\* the 13-byte frame F0, 41, d, the model ID for a, 11, the three bytes of a
\* most significant first, the three bytes of size most significant first,
\* the checksum of those six bytes, F7.
C17_RequestFrame ==
    (pc = "wire" /\ call.op \in {"Get", "DataGet"})
    => LET a == IF call.op = "Get" THEN registers[call.reg].Address ELSE call.addr
           size == IF call.op = "Get" THEN registers[call.reg].Size ELSE call.value
           six == << a \div 65536, (a \div 256) % 256, a % 256,
                     size \div 65536, (size \div 256) % 256, size % 256 >>
           sum == six[1] + six[2] + six[3] + six[4] + six[5] + six[6]
       IN  /\ call.op = "Get" => frame = DataGet(call.device, a, size)
           /\ frame = << 240, 65, call.device, (IF a < 4194304 THEN 69 ELSE 66), 17 >>
                       \o six \o << (128 - (sum % 128)) % 128, 247 >>
           /\ Len(frame) = 13

\* C17's case: Get on the two-byte tone number register of part 16, at
\* 0x401F00.
C17_Witness ==
    /\ pc = "wire"
    /\ call.op = "Get"
    /\ call.reg = FieldPtr(15, 1)
    /\ call.device = 16
    /\ frame = << 240, 65, 16, 66, 17, 64, 31, 0, 0, 0, 2, 31, 247 >>

\* C19: UnmarshalSet(DataSet(d, a, data)) returns the device d, the address
\* a and the data, with no error, for every device byte, every address
\* below 2^24 and every data, the empty data (a frame of 10 bytes) included.
C19_CodecRoundTrip ==
    (/\ pc = "done"
     /\ call.op = "DataSet"
     /\ ~call.corrupted
     /\ call.decoder = "UnmarshalSet")
    => /\ ret.status = "ok"
       /\ ret.dev = call.device
       /\ ret.addr = call.addr
       /\ ret.payload = call.data

\* C19's case: device 0, the highest address and no data: a frame of 10
\* bytes, decoded.
C19_Witness ==
    /\ pc = "done"
    /\ call.op = "DataSet"
    /\ ~call.corrupted
    /\ call.decoder = "UnmarshalSet"
    /\ call.device = 0
    /\ call.addr = 16777215
    /\ call.data = <<>>
    /\ Len(frame) = 10
    /\ ret.status = "ok"
    /\ ret.addr = 16777215

\* C20: queryRegister always finishes: once it has written the request it
\* returns, with the value on the first reply Register.Unmarshal accepts
\* for the register and the configured device, and otherwise with a
\* timeout error once the timeout has elapsed, whatever the input stream
\* delivers, an unending series of non-empty replies that do not match
\* included.
C20_QueryFinishes ==
    (pc = "reading") ~> (pc = "done")

\* Where C20 fails: the time to stop at has passed, a reply that does not
\* match has just been read, and queryRegister is still in its loop.
C20_Witness ==
    /\ pc = "reading"
    /\ call.op = "queryRegister"
    /\ clock > timeoutTime
    /\ Len(frame) > 0
    /\ RegisterUnmarshal(registers[call.reg], StripZeros(frame)).status = "error"

====
